---- MODULE Spec2Model ----
(***************************************************************************)
(* Model of src/lambda_function.py: the weather collection Lambda.         *)
(*                                                                         *)
(* Text.  A Python str is modelled as a sequence of symbols.  A symbol is  *)
(* either one of the characters the code inspects (comma, double quote,    *)
(* backtick, and the Unicode whitespace that str.strip() removes: space,   *)
(* tab, CR, LF, FF, ...) or a word: a maximal run of other                 *)
(* characters ("timestamp", "23:59:59", "T1_Miami_FL").  Joining the       *)
(* symbols of a Text gives the Python string, and a Text never holds two   *)
(* adjacent words (Canon), so two Texts are equal exactly when the strings *)
(* are.  A word holds printable ASCII characters and does not spell the    *)
(* name of a symbol ("<U+00A0>", "<backtick>").                            *)
(*                                                                         *)
(* Python values are tagged records:                                       *)
(*   [t |-> "none"]                 None                                   *)
(*   [t |-> "bool", b |-> TRUE]     bool                                   *)
(*   [t |-> "int", neg |-> FALSE, m |-> <<3, 8>>]                          *)
(*                                  int 38: the sign and the decimal       *)
(*                                  digits, of any length (<<>> for 0)     *)
(*   [t |-> "float", c |-> "finite", neg |-> FALSE, m |-> <<1, 0, 0, 4>>,  *)
(*    e |-> 1]                      float 100.4: the digits m of repr()    *)
(*                                  over 10^e; c is "inf" or "nan" for the *)
(*                                  other floats                           *)
(*   [t |-> "str", s |-> Text]      str                                    *)
(*   [t |-> "dict", d |-> items]    dict: its <<key Text, value>> pairs in *)
(*                                  insertion order, the keys distinct     *)
(*   [t |-> "list", l |-> seq]      list                                   *)
(* A float is a binary double, named by the shortest decimal that reads    *)
(* back as it; its arithmetic is IEEE 754 round-to-nearest-even, computed  *)
(* on arbitrary-precision naturals.                                        *)
(***************************************************************************)
EXTENDS Integers, Sequences, FiniteSets, TLC

-----------------------------------------------------------------------------
(* Python values *)

PyNone == [t |-> "none"]
PyBool(b) == [t |-> "bool", b |-> b]

\* the decimal digits of a natural, <<>> for 0
RECURSIVE DigitsOf(_)
DigitsOf(n) == IF n = 0 THEN <<>> ELSE DigitsOf(n \div 10) \o <<n % 10>>

\* the int with the decimal digits m, negative when neg
IntOf(neg, m) == [t |-> "int", neg |-> neg /\ m # <<>>, m |-> m]
\* the int of a small literal
PyInt(i) == IntOf(i < 0, DigitsOf(IF i < 0 THEN -i ELSE i))
Float(c, neg, m, e) == [t |-> "float", c |-> c, neg |-> neg, m |-> m, e |-> e]
PyStr(s) == [t |-> "str", s |-> s]
PyDict(items) == [t |-> "dict", d |-> items]
PyList(l) == [t |-> "list", l |-> l]

EmptyStr == PyStr(<<>>)
EmptyDict == PyDict(<<>>)
EmptyList == PyList(<<>>)

IsNone(v) == v.t = "none"
IsMapping(v) == v.t = "dict"

\* an exception travelling up a call is the pseudo-value Raised(kind)
Raised(kind) == [t |-> "raise", e |-> kind]
IsRaised(v) == v.t = "raise"

\* truth value of a Python object (bool(v))
Truthy(v) ==
    CASE v.t = "none" -> FALSE
      [] v.t = "bool" -> v.b
      [] v.t = "int" -> v.m # <<>>
      [] v.t = "float" -> v.c # "finite" \/ v.m # <<>>
      [] v.t = "str" -> v.s # <<>>
      [] v.t = "dict" -> v.d # <<>>
      [] v.t = "list" -> v.l # <<>>

\* key in v, for a key the code names (a word)
DictHas(v, key) == \E i \in 1..Len(v.d) : v.d[i][1] = <<key>>

\* dict.get(key, default)
DictGet(v, key, default) ==
    IF DictHas(v, key)
    THEN v.d[CHOOSE i \in 1..Len(v.d) : v.d[i][1] = <<key>>][2]
    ELSE default

Pad2(n) == IF n < 10 THEN "0" \o ToString(n) ELSE ToString(n)

-----------------------------------------------------------------------------
(* Naturals of any size: the sequence of their digits in base 2^15, least   *)
(* significant first, without leading zeros (<<>> is 0).  The recursions     *)
(* halve their range to bound the nesting.                                  *)

Base == 2^15

BigTrim(a) ==
    LET nz == {i \in 1..Len(a) : a[i] # 0}
    IN  IF nz = {} THEN <<>>
        ELSE SubSeq(a, 1, CHOOSE i \in nz : \A j \in nz : j <= i)

RECURSIVE BigOfNat(_)
BigOfNat(n) == IF n = 0 THEN <<>> ELSE <<n % Base>> \o BigOfNat(n \div Base)

\* the digits lo..hi of a * m + s * b + c and the carry out of them
RECURSIVE BigLinRange(_, _, _, _, _, _, _)
BigLinRange(a, m, b, s, lo, hi, c) ==
    IF lo > hi THEN [d |-> <<>>, c |-> c]
    ELSE IF lo = hi
    THEN LET x == (IF lo <= Len(a) THEN a[lo] * m ELSE 0)
                    + (IF lo <= Len(b) THEN s * b[lo] ELSE 0) + c
         IN  [d |-> <<x % Base>>, c |-> (x - (x % Base)) \div Base]
    ELSE LET l == BigLinRange(a, m, b, s, lo, (lo + hi) \div 2, c)
             h == BigLinRange(a, m, b, s, (lo + hi) \div 2 + 1, hi, l.c)
         IN  [d |-> l.d \o h.d, c |-> h.c]

\* a * m + s * b + c, for small m and c, s = 1 or -1, the result not negative
BigLin(a, m, b, s, c) ==
    LET Carried(r) == BigTrim(r.d \o BigOfNat(r.c))
    IN  Carried(BigLinRange(a, m, b, s, 1,
                            IF Len(a) > Len(b) THEN Len(a) ELSE Len(b), c))

BigMulAdd(a, m, c) == BigLin(a, m, <<>>, 1, c)

\* -1, 0, 1 as a < b, a = b, a > b
BigCmp(a, b) ==
    IF Len(a) # Len(b) THEN (IF Len(a) < Len(b) THEN -1 ELSE 1)
    ELSE LET diff == {i \in 1..Len(a) : a[i] # b[i]}
         IN  IF diff = {} THEN 0
             ELSE LET i == CHOOSE j \in diff : \A k \in diff : k <= j
                  IN  IF a[i] < b[i] THEN -1 ELSE 1

\* long division of the digits hi..lo by a small d, the quotient digits most
\* significant first
RECURSIVE BigDivRange(_, _, _, _, _)
BigDivRange(a, d, lo, hi, r) ==
    IF lo > hi THEN [q |-> <<>>, r |-> r]
    ELSE IF lo = hi
    THEN [q |-> <<(r * Base + a[lo]) \div d>>, r |-> (r * Base + a[lo]) % d]
    ELSE LET h == BigDivRange(a, d, (lo + hi) \div 2 + 1, hi, r)
             l == BigDivRange(a, d, lo, (lo + hi) \div 2, h.r)
         IN  [q |-> h.q \o l.q, r |-> l.r]

\* [q, r]: quotient and remainder of a by a small d
BigDiv(a, d) ==
    LET Quotient(qr) ==
            [q |-> BigTrim([i \in 1..Len(a) |-> qr.q[Len(a) + 1 - i]]), r |-> qr.r]
    IN  Quotient(BigDivRange(a, d, 1, Len(a), 0))

\* the number of bits of a
BigBitLen(a) ==
    IF a = <<>> THEN 0
    ELSE 15 * (Len(a) - 1)
         + (CHOOSE n \in 1..15 : 2^(n - 1) <= a[Len(a)] /\ a[Len(a)] < 2^n)

\* a * 2^n
BigShl(a, n) ==
    IF a = <<>> THEN a
    ELSE [i \in 1..(n \div 15) |-> 0] \o BigMulAdd(a, 2^(n % 15), 0)

\* a \div 2^n
BigShr(a, n) ==
    IF n \div 15 >= Len(a) THEN <<>>
    ELSE BigDiv(SubSeq(a, n \div 15 + 1, Len(a)), 2^(n % 15)).q

\* a * 10^n
RECURSIVE BigMulPow10(_, _)
BigMulPow10(a, n) ==
    IF n = 0 \/ a = <<>> THEN a
    ELSE IF n <= 4 THEN BigMulAdd(a, 10^n, 0)
    ELSE BigMulPow10(BigMulPow10(a, n \div 2), n - n \div 2)

\* [q, sticky]: a \div 10^n and whether the division left a remainder
RECURSIVE BigDivPow10(_, _)
BigDivPow10(a, n) ==
    LET Small(qr) == [q |-> qr.q, sticky |-> qr.r # 0]
        Both(h, l) == [q |-> l.q, sticky |-> h.sticky \/ l.sticky]
        Low(h) == Both(h, BigDivPow10(h.q, n - n \div 2))
    IN  IF n = 0 \/ a = <<>> THEN [q |-> a, sticky |-> FALSE]
        ELSE IF n <= 4 THEN Small(BigDiv(a, 10^n))
        ELSE Low(BigDivPow10(a, n \div 2))

\* the natural written by the decimal digits ds
RECURSIVE BigOfDigits(_)
BigOfDigits(ds) ==
    IF ds = <<>> THEN <<>>
    ELSE IF Len(ds) = 1 THEN BigOfNat(ds[1])
    ELSE LET h == Len(ds) \div 2
         IN  BigLin(BigMulPow10(BigOfDigits(SubSeq(ds, 1, h)), Len(ds) - h), 1,
                    BigOfDigits(SubSeq(ds, h + 1, Len(ds))), 1, 0)

\* the decimal digits of a, most significant first, <<>> for 0
RECURSIVE BigDigits(_)
BigDigits(a) ==
    LET Four(r) == <<r \div 1000, (r \div 100) % 10, (r \div 10) % 10, r % 10>>
        Split(qr) == BigDigits(qr.q) \o Four(qr.r)
    IN  IF a = <<>> THEN <<>>
        ELSE IF Len(a) = 1 /\ a[1] < 10000 THEN DigitsOf(a[1])
        ELSE Split(BigDiv(a, 10000))

-----------------------------------------------------------------------------
(* The binary64 doubles of Python's float.  A double is                     *)
(* [c |-> "finite", neg, mant, exp], the value (-1)^neg * mant * 2^exp with  *)
(* mant below 2^53 and exp from -1074, or has c = "inf" or c = "nan".  An    *)
(* operator hands an intermediate result it uses several times to a local   *)
(* operator, so that the result is written once.                            *)

Double(c, neg, mant, exp) == [c |-> c, neg |-> neg, mant |-> mant, exp |-> exp]

\* a rounded mantissa may have reached 2^53; a value from 2^1024 is inf
DNormal(neg, m, e) ==
    LET Fit(m2, e2) ==
            IF BigBitLen(m2) + e2 > 1024 THEN Double("inf", neg, <<>>, 0)
            ELSE Double("finite", neg, m2, e2)
        Halved(wide) == Fit(IF wide THEN BigShr(m, 1) ELSE m,
                            IF wide THEN e + 1 ELSE e)
    IN  IF m = <<>> THEN Double("finite", neg, <<>>, 0)
        ELSE Halved(BigBitLen(m) > 53)

\* the double nearest to (n + f) * 2^k, ties to even, where 0 <= f < 1 and
\* sticky tells f > 0
DRound(neg, n, sticky, k) ==
    LET \* c compares the bits shifted out with half a unit of q
        Up(q, c) == c > 0 \/ (c = 0 /\ (sticky \/ (q # <<>> /\ q[1] % 2 = 1)))
        Nearest(e, q) ==
            DNormal(neg,
                    IF Up(q, BigCmp(BigLin(n, 1, BigShl(q, e - k), -1, 0),
                                    BigShl(<<1>>, e - k - 1)))
                    THEN BigMulAdd(q, 1, 1) ELSE q,
                    e)
        \* e is the exponent of the result: 53 bits, but not below -1074
        At(e) == IF e <= k THEN DNormal(neg, BigShl(n, k - e), e)
                 ELSE Nearest(e, BigShr(n, e - k))
        Floor(e) == At(IF e > -1074 THEN e ELSE -1074)
    IN  Floor(k + BigBitLen(n) - 53)

\* the double nearest to the decimal (-1)^neg * ds * 10^e10, ds its digits
\* without leading zeros: what float() and a float literal give.  The
\* quotient by 10^-e10 is taken with s extra bits, more than it can lose.
DOfDecimal(neg, ds, e10) ==
    LET up == IF e10 > 0 THEN e10 ELSE 0
        dn == IF e10 < 0 THEN -e10 ELSE 0
        Rounded(qs, s) == DRound(neg, qs.q, qs.sticky, -s)
        Shifted(s) ==
            Rounded(BigDivPow10(BigShl(BigMulPow10(BigOfDigits(ds), up), s), dn), s)
    IN  IF ds = <<>> THEN Double("finite", neg, <<>>, 0)
        ELSE IF Len(ds) + e10 > 310 THEN Double("inf", neg, <<>>, 0)
        ELSE IF Len(ds) + e10 < -330 THEN Double("finite", neg, <<>>, 0)
        ELSE Shifted(IF dn = 0 THEN 0
                     ELSE 60 + BigBitLen(BigMulPow10(<<1>>, dn)))

\* x * m for a small natural m
DMul(x, m) ==
    IF x.c # "finite" THEN x
    ELSE DRound(x.neg, BigMulAdd(x.mant, m, 0), FALSE, x.exp)

\* x / d for a small positive d
DDiv(x, d) ==
    LET Rounded(qr) == DRound(x.neg, qr.q, qr.r # 0, x.exp - 20)
    IN  IF x.c # "finite" THEN x
        ELSE Rounded(BigDiv(BigShl(x.mant, 20), d))

\* n / d of two ints, n of any size and negative when neg, d small and
\* positive: the double nearest to the quotient
DIntDiv(neg, n, d) ==
    LET Rounded(qr) == DRound(neg, qr.q, qr.r # 0, -75)
    IN  Rounded(BigDiv(BigShl(n, 75), d))

\* x + y
DAdd(x, y) ==
    LET \* a and b are the mantissas at the common exponent e, c compares them
        Ordered(a, b, e, c) ==
            IF x.neg # y.neg /\ c = 0 THEN Double("finite", FALSE, <<>>, 0)
            ELSE DRound(IF x.neg = y.neg \/ c > 0 THEN x.neg ELSE y.neg,
                        BigLin(IF x.neg # y.neg /\ c < 0 THEN b ELSE a, 1,
                               IF x.neg # y.neg /\ c < 0 THEN a ELSE b,
                               IF x.neg = y.neg THEN 1 ELSE -1, 0),
                        FALSE, e)
        Aligned(a, b, e) == Ordered(a, b, e, BigCmp(a, b))
        At(e) == Aligned(BigShl(x.mant, x.exp - e), BigShl(y.mant, y.exp - e), e)
    IN  IF x.c = "nan" \/ y.c = "nan" THEN Double("nan", FALSE, <<>>, 0)
        ELSE IF x.c = "inf"
        THEN (IF y.c = "inf" /\ y.neg # x.neg THEN Double("nan", FALSE, <<>>, 0)
              ELSE x)
        ELSE IF y.c = "inf" THEN y
        ELSE IF x.mant = <<>> /\ y.mant = <<>>
        THEN Double("finite", x.neg /\ y.neg, <<>>, 0)
        ELSE IF x.mant = <<>> THEN y
        ELSE IF y.mant = <<>> THEN x
        ELSE At(IF x.exp < y.exp THEN x.exp ELSE y.exp)

-----------------------------------------------------------------------------
(* repr(float): the shortest decimal that reads back as the same double     *)
(* (the free-format digit generation of Steele & White and Burger & Dybvig, *)
(* the closest of the shortest as Python chooses it).  The state g holds    *)
(* v = r / s and the half-widths mp / s and mm / s of the rounding interval  *)
(* above and below v; k is the position of the decimal point.               *)

\* the upper end v + m+ of the rounding interval reaches s
ReachesHigh(r, mp, s, even) ==
    LET Reaches(c) == IF even THEN c >= 0 ELSE c > 0
    IN  Reaches(BigCmp(BigLin(r, 1, mp, 1, 0), s))

\* fix the estimate of k: 10^(k-1) <= v + m+ < 10^k
RECURSIVE Scale(_, _)
Scale(g, even) ==
    LET \* ten holds 10 r, 10 s, 10 mp and 10 mm
        Step(ten) ==
            IF ReachesHigh(g.r, g.mp, g.s, even)
            THEN Scale([g EXCEPT !.s = ten.s, !.k = @ + 1], even)
            ELSE IF ~ReachesHigh(ten.r, ten.mp, g.s, even)
            THEN Scale([g EXCEPT !.r = ten.r, !.mp = ten.mp, !.mm = ten.mm,
                                 !.k = @ - 1], even)
            ELSE g
    IN  Step([f \in {"r", "s", "mp", "mm"} |-> BigMulAdd(g[f], 10, 0)])

\* the digits, until the decimal written so far identifies the double
RECURSIVE Generate(_, _)
Generate(g, even) ==
    LET \* both ends of the interval allow to stop: the closer digit, the even
        \* one when they are as close
        Closest(d, c) == IF c < 0 \/ (c = 0 /\ d % 2 = 0) THEN <<d>> ELSE <<d + 1>>
        Decide(d, r, ten, low, high) ==
            IF ~low /\ ~high
            THEN <<d>> \o Generate([g EXCEPT !.r = r, !.mp = ten.mp, !.mm = ten.mm],
                                   even)
            ELSE IF low /\ ~high THEN <<d>>
            ELSE IF high /\ ~low THEN <<d + 1>>
            ELSE Closest(d, BigCmp(BigMulAdd(r, 2, 0), g.s))
        ReachesLow(c) == IF even THEN c <= 0 ELSE c < 0
        \* r is the remainder after the digit d
        Remainder(d, r, ten) ==
            Decide(d, r, ten, ReachesLow(BigCmp(r, ten.mm)),
                   ReachesHigh(r, ten.mp, g.s, even))
        Digit(d, ten, mult) == Remainder(d, BigLin(ten.r, 1, mult[d + 1], -1, 0), ten)
        \* ten holds 10 r, 10 mp and 10 mm, mult[x + 1] is x * s
        Quotient(ten, mult) ==
            Digit(CHOOSE x \in 0..9 : /\ BigCmp(mult[x + 1], ten.r) <= 0
                                      /\ BigCmp(mult[x + 2], ten.r) > 0,
                  ten, mult)
    IN  Quotient([f \in {"r", "mp", "mm"} |-> BigMulAdd(g[f], 10, 0)],
                 [x \in 1..11 |-> BigMulAdd(g.s, x - 1, 0)])

\* [digits, k]: the value 0.d1d2...dn * 10^k of a finite double that is not 0
Shortest(x) ==
    LET even == x.mant[1] % 2 = 0
        \* the interval below a power of two, <<0, 0, 0, 128>> being 2^52, is
        \* half as wide
        u == IF x.exp > -1074 /\ x.mant = <<0, 0, 0, 128>> THEN 2 ELSE 1
        up == IF x.exp >= 0 THEN x.exp ELSE 0
        dn == IF x.exp >= 0 THEN 0 ELSE -x.exp
        k0 == ((BigBitLen(x.mant) + x.exp - 1) * 30103) \div 100000
        p == IF k0 < 0 THEN -k0 ELSE 0
        Digits(g) == [digits |-> Generate(g, even), k |-> g.k]
    IN  Digits(Scale([r |-> BigMulPow10(BigShl(BigMulAdd(x.mant, 2 * u, 0), up), p),
                      s |-> BigMulPow10(BigShl(<<2 * u>>, dn),
                                        IF k0 > 0 THEN k0 ELSE 0),
                      mp |-> BigMulPow10(BigShl(<<u>>, up), p),
                      mm |-> BigMulPow10(BigShl(<<1>>, up), p),
                      k |-> k0], even))

\* the float value of a double
FloatOfDouble(x) ==
    LET \* without the zeros at the end of the digits
        Value(sd, n) == Float("finite", x.neg, SubSeq(sd.digits, 1, n), n - sd.k)
        Digits(sd) ==
            Value(sd, CHOOSE j \in 1..Len(sd.digits) :
                          /\ sd.digits[j] # 0
                          /\ \A i \in (j + 1)..Len(sd.digits) : sd.digits[i] = 0)
    IN  IF x.c # "finite" \/ x.mant = <<>> THEN Float(x.c, x.neg, <<>>, 0)
        ELSE Digits(Shortest(x))

\* the double of a float value
DoubleOf(v) ==
    IF v.c # "finite" THEN Double(v.c, v.neg, <<>>, 0)
    ELSE DOfDecimal(v.neg, v.m, -v.e)

\* the float of the literal m/10^e: PyFloat(1004, 1) is 100.4
PyFloat(m, e) ==
    FloatOfDouble(DOfDecimal(m < 0, DigitsOf(IF m < 0 THEN -m ELSE m), -e))

\* the digits ds as a string
RECURSIVE DigitStr(_)
DigitStr(ds) ==
    IF ds = <<>> THEN ""
    ELSE IF Len(ds) = 1 THEN ToString(ds[1])
    ELSE DigitStr(SubSeq(ds, 1, Len(ds) \div 2))
             \o DigitStr(SubSeq(ds, Len(ds) \div 2 + 1, Len(ds)))

\* repr(float) and str(float): positional notation when the decimal point
\* lies from 3 places before the first digit to 16 places after it,
\* exponential notation otherwise: "100.4", "32.0", "-0.5", "5e-05", "1e+16"
FloatRepr(v) ==
    LET n == Len(v.m)
        decpt == n - v.e
        sign == IF v.neg THEN "-" ELSE ""
    IN  CASE v.c = "nan" -> "nan"
          [] v.c = "inf" -> sign \o "inf"
          [] v.c = "finite" /\ n = 0 -> sign \o "0.0"
          [] v.c = "finite" /\ n > 0 /\ (decpt > 16 \/ decpt < -3) ->
                sign \o ToString(v.m[1])
                     \o (IF n > 1 THEN "." \o DigitStr(Tail(v.m)) ELSE "")
                     \o (IF decpt < 1 THEN "e-" \o Pad2(1 - decpt)
                         ELSE "e+" \o Pad2(decpt - 1))
          [] v.c = "finite" /\ n > 0 /\ decpt >= -3 /\ decpt <= 0 ->
                sign \o "0." \o DigitStr([i \in 1..(-decpt) |-> 0]) \o DigitStr(v.m)
          [] v.c = "finite" /\ n > 0 /\ decpt >= n /\ decpt <= 16 ->
                sign \o DigitStr(v.m) \o DigitStr([i \in 1..(decpt - n) |-> 0]) \o ".0"
          [] OTHER ->
                sign \o DigitStr(SubSeq(v.m, 1, decpt)) \o "."
                     \o DigitStr(SubSeq(v.m, decpt + 1, n))

-----------------------------------------------------------------------------
(* str methods used by the code *)

\* the characters str.strip() removes and float() ignores around a literal:
\* the Unicode whitespace.  A character without a TLA+ escape is the symbol
\* "<U+XXXX>" of its code point.
Whitespace ==
    { " ", "\t", "\n", "\r", "\f", "<U+000B>",
      "<U+001C>", "<U+001D>", "<U+001E>", "<U+001F>", "<U+0085>", "<U+00A0>",
      "<U+1680>", "<U+2000>", "<U+2001>", "<U+2002>", "<U+2003>", "<U+2004>",
      "<U+2005>", "<U+2006>", "<U+2007>", "<U+2008>", "<U+2009>", "<U+200A>",
      "<U+2028>", "<U+2029>", "<U+202F>", "<U+205F>", "<U+3000>" }

\* the backtick character (U+0060), which a TLA+ string literal cannot hold
Backtick == "<backtick>"

\* the characters that are symbols of their own
Special == {",", "\"", Backtick} \cup Whitespace

IsWord(c) == c \notin Special

\* merge adjacent words, as string concatenation does
RECURSIVE Canon(_)
Canon(s) ==
    IF Len(s) < 2 THEN s
    ELSE IF IsWord(s[1]) /\ IsWord(s[2])
         THEN Canon(<<s[1] \o s[2]>> \o SubSeq(s, 3, Len(s)))
         ELSE <<s[1]>> \o Canon(Tail(s))

\* the escape repr() writes for a character of a str that is not printable;
\* the other symbols are written as they are
ReprSym(c) ==
    CASE c = "\t" -> "\\t"
      [] c = "\n" -> "\\n"
      [] c = "\r" -> "\\r"
      [] c = "\f" -> "\\x0c"
      [] c = "<U+000B>" -> "\\x0b"
      [] c = "<U+001C>" -> "\\x1c"
      [] c = "<U+001D>" -> "\\x1d"
      [] c = "<U+001E>" -> "\\x1e"
      [] c = "<U+001F>" -> "\\x1f"
      [] c = "<U+0085>" -> "\\x85"
      [] c = "<U+00A0>" -> "\\xa0"
      [] c = "<U+1680>" -> "\\u1680"
      [] c = "<U+2000>" -> "\\u2000"
      [] c = "<U+2001>" -> "\\u2001"
      [] c = "<U+2002>" -> "\\u2002"
      [] c = "<U+2003>" -> "\\u2003"
      [] c = "<U+2004>" -> "\\u2004"
      [] c = "<U+2005>" -> "\\u2005"
      [] c = "<U+2006>" -> "\\u2006"
      [] c = "<U+2007>" -> "\\u2007"
      [] c = "<U+2008>" -> "\\u2008"
      [] c = "<U+2009>" -> "\\u2009"
      [] c = "<U+200A>" -> "\\u200a"
      [] c = "<U+2028>" -> "\\u2028"
      [] c = "<U+2029>" -> "\\u2029"
      [] c = "<U+202F>" -> "\\u202f"
      [] c = "<U+205F>" -> "\\u205f"
      [] c = "<U+3000>" -> "\\u3000"
      [] OTHER -> c

\* a word as repr() writes it between the quotes q: a backslash is doubled
\* and the quote character is escaped
RECURSIVE EscapeWord(_, _)
EscapeWord(w, q) ==
    IF Len(w) = 1
    THEN (IF w = "\\" THEN "\\\\" ELSE IF w = q THEN "\\" \o q ELSE w)
    ELSE EscapeWord(SubSeq(w, 1, Len(w) \div 2), q)
             \o EscapeWord(SubSeq(w, Len(w) \div 2 + 1, Len(w)), q)

\* ', '.join(parts)
RECURSIVE JoinComma(_)
JoinComma(parts) ==
    IF parts = <<>> THEN <<>>
    ELSE IF Len(parts) = 1 THEN parts[1]
    ELSE parts[1] \o <<",", " ">> \o JoinComma(Tail(parts))

\* repr(value), which str() of a list or dict applies to the content.  A str
\* is written between apostrophes, or between double quotes when it holds an
\* apostrophe and no double quote; a dict is written in insertion order.
RECURSIVE Repr(_)
Repr(v) ==
    CASE v.t = "none" -> <<"None">>
      [] v.t = "bool" -> IF v.b THEN <<"True">> ELSE <<"False">>
      [] v.t = "int" -> <<(IF v.neg THEN "-" ELSE "")
                             \o (IF v.m = <<>> THEN "0" ELSE DigitStr(v.m))>>
      [] v.t = "float" -> <<FloatRepr(v)>>
      [] v.t = "str" ->
            LET apostrophe ==
                    \E i \in 1..Len(v.s) :
                        /\ IsWord(v.s[i])
                        /\ \E j \in 1..Len(v.s[i]) : SubSeq(v.s[i], j, j) = "'"
                quote == \E i \in 1..Len(v.s) : v.s[i] = "\""
                q == IF apostrophe /\ ~quote THEN "\"" ELSE "'"
            IN  <<q>> \o [i \in 1..Len(v.s) |->
                            IF IsWord(v.s[i]) THEN EscapeWord(v.s[i], q)
                            ELSE ReprSym(v.s[i])] \o <<q>>
      [] v.t = "list" ->
            <<"[">> \o JoinComma([i \in 1..Len(v.l) |-> Repr(v.l[i])]) \o <<"]">>
      [] v.t = "dict" ->
            <<"{">> \o JoinComma([i \in 1..Len(v.d) |->
                          Repr(PyStr(v.d[i][1])) \o <<":", " ">> \o Repr(v.d[i][2])])
                    \o <<"}">>

\* str(value), as used by f-strings and by clean_value
StrOf(v) == IF v.t = "str" THEN v.s ELSE Canon(Repr(v))

RECURSIVE LStripSet(_, _)
LStripSet(s, cs) ==
    IF s # <<>> /\ Head(s) \in cs THEN LStripSet(Tail(s), cs) ELSE s

RECURSIVE RStripSet(_, _)
RStripSet(s, cs) ==
    IF s # <<>> /\ s[Len(s)] \in cs
    THEN RStripSet(SubSeq(s, 1, Len(s) - 1), cs)
    ELSE s

\* str.strip(): remove leading and trailing whitespace
Strip(s) == RStripSet(LStripSet(s, Whitespace), Whitespace)

\* str.strip('"')
StripQuotes(s) == RStripSet(LStripSet(s, {"\""}), {"\""})

Contains(s, c) == \E i \in 1..Len(s) : s[i] = c

RECURSIVE ReplaceEach(_, _, _)
ReplaceEach(s, c, r) ==
    IF s = <<>> THEN <<>>
    ELSE (IF Head(s) = c THEN r ELSE <<Head(s)>>) \o ReplaceEach(Tail(s), c, r)

\* str.replace(c, r) for a one-character pattern c and replacement Text r
ReplaceChar(s, c, r) == Canon(ReplaceEach(s, c, r))

ContainsDoubledQuote(s) ==
    \E i \in 1..(Len(s) - 1) : s[i] = "\"" /\ s[i + 1] = "\""

\* str.replace('""', '"'): one left-to-right pass over non-overlapping matches
RECURSIVE ReplaceDoubledQuote(_)
ReplaceDoubledQuote(s) ==
    IF Len(s) < 2 THEN s
    ELSE IF s[1] = "\"" /\ s[2] = "\""
         THEN <<"\"">> \o ReplaceDoubledQuote(SubSeq(s, 3, Len(s)))
         ELSE <<s[1]>> \o ReplaceDoubledQuote(Tail(s))

\* while '""' in cleaned: cleaned = cleaned.replace('""', '"')
RECURSIVE CollapseQuotes(_)
CollapseQuotes(s) ==
    IF ContainsDoubledQuote(s) THEN CollapseQuotes(ReplaceDoubledQuote(s)) ELSE s

-----------------------------------------------------------------------------
(* Module constants *)

FIELDNAMES ==
    << "timestamp", "region", "temperature_celsius", "temperature_fahrenheit",
       "humidity", "wind_speed_ms", "wind_direction", "barometric_pressure",
       "visibility", "dew_point", "heat_index", "wind_chill",
       "present_weather", "forecast_temp", "short_forecast",
       "detailed_forecast", "snow_level", "ice_accumulation",
       "precipitation_probability", "max_temperature", "min_temperature",
       "uv_index", "has_alerts" >>

FieldSet == {FIELDNAMES[i] : i \in 1..Len(FIELDNAMES)}

-----------------------------------------------------------------------------
(* save_consolidated_data.clean_value *)

\* lines 262-273
clean_str(value) ==
    LET Quoted(cleaned) ==
            IF Contains(cleaned, ",") \/ Contains(cleaned, "\"")
            THEN <<"\"">> \o ReplaceChar(cleaned, Backtick, <<>>) \o <<"\"">>
            ELSE cleaned
    IN  Quoted(StripQuotes(CollapseQuotes(
            ReplaceChar(ReplaceChar(Strip(value), "\n", <<" ">>), "\r", <<>>))))

\* returns the Text of the cleaned value
clean_value(value) ==
    CASE value.t = "none" -> <<>>
      [] value.t = "str" -> clean_str(value.s)
      [] OTHER -> StrOf(value)

-----------------------------------------------------------------------------
(* csv.writer with the default (excel) dialect: QUOTE_MINIMAL, "\r\n" *)

NeedsQuoting(field) ==
    \E i \in 1..Len(field) : field[i] \in {",", "\"", "\r", "\n"}

WriteField(field) ==
    IF NeedsQuoting(field)
    THEN <<"\"">> \o ReplaceChar(field, "\"", <<"\"", "\"">>) \o <<"\"">>
    ELSE field

RECURSIVE JoinFields(_)
JoinFields(fields) ==
    IF Len(fields) = 0 THEN <<>>
    ELSE IF Len(fields) = 1 THEN WriteField(fields[1])
    ELSE WriteField(fields[1]) \o <<",">> \o JoinFields(Tail(fields))

\* csv.writer.writerow: a row of one empty field is written as ""
csv_writerow(fields) ==
    (IF Len(fields) = 1 /\ fields[1] = <<>> THEN <<"\"", "\"">>
     ELSE JoinFields(fields)) \o <<"\r", "\n">>

\* DictWriter(output, fieldnames=FIELDNAMES).writeheader()
writeheader == csv_writerow([i \in 1..Len(FIELDNAMES) |-> <<FIELDNAMES[i]>>])

\* DictWriter.writerow(cleaned_row), cleaned_row a function FieldSet -> Text
dict_writerow(cleaned) == csv_writerow([i \in 1..Len(FIELDNAMES) |-> cleaned[FIELDNAMES[i]]])

-----------------------------------------------------------------------------
(* csv.reader with the default dialect, fed the lines of io.StringIO(text). *)
(* The states and transitions are those of the csv module's parser; EOL is  *)
(* the end-of-line marker the reader feeds the parser after every line.     *)
(* field_len counts the characters of the field being read, limit is the    *)
(* field size limit, and err is the csv.Error the reader raises.            *)

EOL == "<EOL>"

\* csv.field_size_limit(), which the program leaves at the module's default
field_size_limit == 131072

ReaderStart(limit) ==
    [st |-> "START_RECORD", field |-> <<>>, field_len |-> 0, limit |-> limit,
     fields |-> <<>>, rows |-> <<>>, err |-> FALSE]

\* parse_save_field
SaveField(a) ==
    [a EXCEPT !.fields = Append(@, a.field), !.field = <<>>, !.field_len = 0]

\* the characters a symbol stands for
SymLen(c) == IF IsWord(c) THEN Len(c) ELSE 1

\* parse_add_char: csv.Error when the field passes the field size limit
AddChar(a, c) ==
    LET Added(n) ==
            IF n > 0 /\ IsWord(a.field[n]) /\ IsWord(c)
            THEN [a EXCEPT !.field[n] = @ \o c, !.field_len = @ + SymLen(c)]
            ELSE [a EXCEPT !.field = Append(@, c), !.field_len = @ + SymLen(c)]
    IN  IF a.field_len + SymLen(c) > a.limit
        THEN [a EXCEPT !.err = TRUE]
        ELSE Added(Len(a.field))

EndOfRecord(a, c) ==
    [SaveField(a) EXCEPT !.st = IF c = EOL THEN "START_RECORD" ELSE "EAT_CRNL"]

StartField(a, c) ==
    IF c \in {"\n", "\r", EOL} THEN EndOfRecord(a, c)
    ELSE IF c = "\"" THEN [a EXCEPT !.st = "IN_QUOTED_FIELD"]
    ELSE IF c = "," THEN [SaveField(a) EXCEPT !.st = "START_FIELD"]
    ELSE [AddChar(a, c) EXCEPT !.st = "IN_FIELD"]

parse_process_char(a, c) ==
    CASE a.st = "START_RECORD" ->
            IF c = EOL THEN a
            ELSE IF c \in {"\n", "\r"} THEN [a EXCEPT !.st = "EAT_CRNL"]
            ELSE StartField(a, c)
      [] a.st = "START_FIELD" -> StartField(a, c)
      [] a.st = "IN_FIELD" ->
            IF c \in {"\n", "\r", EOL} THEN EndOfRecord(a, c)
            ELSE IF c = "," THEN [SaveField(a) EXCEPT !.st = "START_FIELD"]
            ELSE AddChar(a, c)
      [] a.st = "IN_QUOTED_FIELD" ->
            IF c = EOL THEN a
            ELSE IF c = "\"" THEN [a EXCEPT !.st = "QUOTE_IN_QUOTED_FIELD"]
            ELSE AddChar(a, c)
      [] a.st = "QUOTE_IN_QUOTED_FIELD" ->
            IF c = "\"" THEN [AddChar(a, c) EXCEPT !.st = "IN_QUOTED_FIELD"]
            ELSE IF c = "," THEN [SaveField(a) EXCEPT !.st = "START_FIELD"]
            ELSE IF c \in {"\n", "\r", EOL} THEN EndOfRecord(a, c)
            ELSE [AddChar(a, c) EXCEPT !.st = "IN_FIELD"]
      [] a.st = "EAT_CRNL" ->
            IF c \in {"\n", "\r"} THEN a
            ELSE IF c = EOL THEN [a EXCEPT !.st = "START_RECORD"]
            ELSE [a EXCEPT !.err = TRUE]

\* after a line: the record is complete when the parser is back at
\* START_RECORD, otherwise the next line continues it
EndOfLine(a) ==
    LET Closed(b) ==
            IF b.err \/ b.st # "START_RECORD" THEN b
            ELSE [b EXCEPT !.rows = Append(@, b.fields), !.fields = <<>>]
    IN  Closed(parse_process_char(a, EOL))

\* end of input inside a record: the pending field closes the last row
EndOfInput(a) ==
    IF a.err \/ a.st = "START_RECORD" THEN a
    ELSE IF a.field # <<>> \/ a.st = "IN_QUOTED_FIELD"
         THEN [a EXCEPT !.rows = Append(@, Append(a.fields, a.field)),
                        !.fields = <<>>, !.field = <<>>, !.field_len = 0]
         ELSE a

\* one character of the input: a line ends after "\n" and at the end of text
ReadChar(text, i, a) ==
    LET Fed(b) ==
            IF b.err THEN b
            ELSE IF text[i] = "\n" \/ i = Len(text) THEN EndOfLine(b)
            ELSE b
    IN  IF a.err THEN a ELSE Fed(parse_process_char(a, text[i]))

\* the characters lo..hi in order, the range halved to bound the nesting
RECURSIVE ReadRange(_, _, _, _)
ReadRange(text, lo, hi, a) ==
    IF lo > hi THEN a
    ELSE IF lo = hi THEN ReadChar(text, lo, a)
    ELSE LET Rest(left) ==
                 IF left.err THEN left
                 ELSE ReadRange(text, (lo + hi) \div 2 + 1, hi, left)
         IN  Rest(ReadRange(text, lo, (lo + hi) \div 2, a))

\* [rows |-> the rows read before any error, err |-> csv.Error was raised]
ReadRows(text, limit) ==
    LET Read(a) == [rows |-> a.rows, err |-> a.err]
    IN  Read(EndOfInput(ReadRange(text, 1, Len(text), ReaderStart(limit))))

\* csv.reader(io.StringIO(text)), as line 286 reads the stored dataset
csv_reader(text) == ReadRows(text, field_size_limit)

-----------------------------------------------------------------------------
(* csv.DictReader: the first row gives the field names; blank rows are      *)
(* skipped; a name bound twice keeps its last column; a short row has None  *)
(* for the missing columns.                                                 *)

HasColumn(fieldnames, name) ==
    \E i \in 1..Len(fieldnames) : fieldnames[i] = <<name>>

LastColumn(fieldnames, name) ==
    CHOOSE i \in 1..Len(fieldnames) :
        /\ fieldnames[i] = <<name>>
        /\ \A j \in (i + 1)..Len(fieldnames) : fieldnames[j] # <<name>>

\* row[name] for a name among the field names
RowItem(fieldnames, row, name) ==
    LET At(i) == IF i <= Len(row) THEN PyStr(row[i]) ELSE PyNone
    IN  At(LastColumn(fieldnames, name))

\* row.get(name, '')
RowGet(fieldnames, row, name) ==
    IF HasColumn(fieldnames, name) THEN RowItem(fieldnames, row, name)
    ELSE EmptyStr

\* the rows DictReader yields: those after the header that are not blank
DataRows(rows) == SelectSeq(Tail(rows), LAMBDA r : r # <<>>)

-----------------------------------------------------------------------------
(* save_consolidated_data                                                   *)
(* A stored object is [kind |-> "Object", body |-> Text, utf8 |-> BOOLEAN];  *)
(* utf8 = FALSE is an object whose bytes do not decode.  get_object gives   *)
(* the object, or raises NoSuchKey or another ClientError.  A record (data) *)
(* is a function from field names to Python values.                         *)

Object(body) == [kind |-> "Object", body |-> body, utf8 |-> TRUE]
UndecodableObject == [kind |-> "Object", body |-> <<>>, utf8 |-> FALSE]
NoSuchKey == [kind |-> "NoSuchKey"]
ClientError == [kind |-> "ClientError"]

\* f"{row['timestamp']}_{row['region']}"
entry_key(timestamp, region) ==
    Canon(StrOf(timestamp) \o <<"_">> \o StrOf(region))

\* lines 288-293: keep the first row of every entry key, in order
RECURSIVE UniqueRows(_, _, _)
UniqueRows(fieldnames, rows, seen) ==
    IF rows = <<>> THEN <<>>
    ELSE LET Kept(key) ==
                 IF key \in seen
                 THEN UniqueRows(fieldnames, Tail(rows), seen)
                 ELSE <<Head(rows)>>
                          \o UniqueRows(fieldnames, Tail(rows), seen \cup {key})
         IN  Kept(entry_key(RowItem(fieldnames, Head(rows), "timestamp"),
                            RowItem(fieldnames, Head(rows), "region")))

RowKeys(fieldnames, rows) ==
    {entry_key(RowItem(fieldnames, rows[i], "timestamp"),
               RowItem(fieldnames, rows[i], "region")) : i \in 1..Len(rows)}

\* line 299: cleaned_row = {k: clean_value(row.get(k, '')) for k in FIELDNAMES}
cleaned_row(fieldnames, row) ==
    [k \in FieldSet |-> clean_value(RowGet(fieldnames, row, k))]

RECURSIVE WriteRows(_, _)
WriteRows(fieldnames, rows) ==
    IF rows = <<>> THEN <<>>
    ELSE dict_writerow(cleaned_row(fieldnames, Head(rows)))
             \o WriteRows(fieldnames, Tail(rows))

\* lines 285-300, for a decoded body that passes the check of line 285
MergeExisting(existing_csv) ==
    LET \* the rows the loop of line 288 reads before any csv.Error; after a
        \* csv.Error line 302 writes the header alone and the keys read so
        \* far stay in existing_entries
        Merged(fieldnames, data_rows, err) ==
            IF data_rows # <<>> /\ ~(HasColumn(fieldnames, "timestamp")
                                       /\ HasColumn(fieldnames, "region"))
            THEN [raised |-> "KeyError", output |-> <<>>, existing_entries |-> {}]
            ELSE [raised |-> "",
                  output |-> writeheader \o
                      (IF err THEN <<>>
                       ELSE WriteRows(fieldnames,
                                      UniqueRows(fieldnames, data_rows, {}))),
                  existing_entries |-> RowKeys(fieldnames, data_rows)]
        Parsed(rows, err) ==
            Merged(IF rows = <<>> THEN <<>> ELSE Head(rows),
                   IF rows = <<>> THEN <<>> ELSE DataRows(rows), err)
        Read(parsed) == Parsed(parsed.rows, parsed.err)
    IN  Read(csv_reader(existing_csv))

\* lines 279-305.  got is the outcome of s3.get_object.
LoadExisting(got) ==
    IF got.kind = "NoSuchKey"
    THEN [raised |-> "", output |-> writeheader, existing_entries |-> {}]
    ELSE IF got.kind = "ClientError"
    THEN [raised |-> "ClientError", output |-> <<>>, existing_entries |-> {}]
    ELSE IF ~got.utf8
    THEN [raised |-> "UnicodeDecodeError", output |-> <<>>, existing_entries |-> {}]
    ELSE IF Strip(got.body) # <<>> /\ Contains(got.body, ",")
    THEN MergeExisting(got.body)
    ELSE [raised |-> "", output |-> <<>>, existing_entries |-> {}]

\* data.get(k, '')
DataGet(data, k) == IF k \in DOMAIN data THEN data[k] ELSE EmptyStr

\* lines 307-316: the body handed to put_object
NewBody(loaded, data) ==
    LET new_entry_key == entry_key(data["timestamp"], data["region"])
        cleaned_data == [k \in FieldSet |-> clean_value(DataGet(data, k))]
    IN  IF new_entry_key \notin loaded.existing_entries
        THEN (IF loaded.output = <<>> THEN writeheader ELSE loaded.output)
                 \o dict_writerow(cleaned_data)
        ELSE loaded.output

\* the whole call up to put_object: [raised, body]
save_consolidated_data(data, got) ==
    LET Saved(loaded) ==
            IF loaded.raised # "" THEN [raised |-> loaded.raised, body |-> <<>>]
            ELSE IF ~({"timestamp", "region"} \subseteq DOMAIN data)
            THEN [raised |-> "KeyError", body |-> <<>>]
            ELSE [raised |-> "", body |-> NewBody(loaded, data)]
    IN  Saved(LoadExisting(got))

\* the object of a partition after save_consolidated_data was called with
\* the records one call after the other, the partition empty before the
\* first call
RECURSIVE DatasetOf(_)
DatasetOf(records) ==
    IF records = <<>> THEN NoSuchKey
    ELSE Object(save_consolidated_data(
                    records[Len(records)],
                    DatasetOf(SubSeq(records, 1, Len(records) - 1))).body)

-----------------------------------------------------------------------------
(* process_weather_data *)

\* v.get(key, default): AttributeError unless v is a dict
Get(v, key, default) ==
    IF IsRaised(v) THEN v
    ELSE IF v.t = "dict" THEN DictGet(v, key, default)
    ELSE Raised("AttributeError")

\* seq[0] if seq else {}  (line 177); s[0] of a str is the first character
\* of its first symbol
FirstOrEmpty(v) ==
    IF IsRaised(v) THEN v
    ELSE IF ~Truthy(v) THEN EmptyDict
    ELSE IF v.t = "list" THEN v.l[1]
    ELSE IF v.t = "str"
    THEN PyStr(<<IF IsWord(v.s[1]) THEN Head(v.s[1]) ELSE v.s[1]>>)
    ELSE IF v.t = "dict" THEN Raised("KeyError")
    ELSE Raised("TypeError")

\* lines 182-191
RECURSIVE FollowKeys(_, _, _)
FollowKeys(result, keys, default) ==
    IF keys = <<>> THEN (IF IsNone(result) THEN default ELSE result)
    ELSE IF ~IsMapping(result) THEN default
    ELSE FollowKeys(DictGet(result, Head(keys), EmptyDict), Tail(keys), default)

safe_get_value(data, keys, default) ==
    FollowKeys(IF Truthy(data) THEN data ELSE EmptyDict, keys, default)

\* lines 193-198
safe_get_grid_value(grid_data, property_name) ==
    IF grid_data.t # "dict" THEN EmptyStr
    ELSE LET prop == DictGet(grid_data, property_name, EmptyDict)
         IN  IF prop.t # "dict" THEN EmptyStr
             ELSE LET values == DictGet(prop, "values", EmptyList)
                  IN  IF ~Truthy(values) THEN EmptyStr
                      ELSE IF values.t = "list"
                      THEN (IF values.l[1].t = "dict"
                            THEN DictGet(values.l[1], "value", EmptyStr)
                            ELSE EmptyStr)
                      ELSE IF values.t = "dict" THEN Raised("KeyError")
                      ELSE EmptyStr

\* the natural written by a few decimal digits
RECURSIVE NatOfDigits(_)
NatOfDigits(ds) ==
    IF ds = <<>> THEN 0
    ELSE 10 * NatOfDigits(SubSeq(ds, 1, Len(ds) - 1)) + ds[Len(ds)]

\* the decimal literal of a str without surrounding whitespace, a word, as
\* float() reads it: an optional sign, then inf, infinity or nan in any case,
\* or digits with an optional point and an optional exponent; an underscore
\* only between two digits.  [c |-> "error"] for any other word.
ParseFloat(w) ==
    LET Digit == {"0", "1", "2", "3", "4", "5", "6", "7", "8", "9"}
        Error == [c |-> "error"]
        Val(c) == CHOOSE d \in 0..9 : ToString(d) = c
        \* the number of digits of body from position from on
        Run(body, from) ==
            CHOOSE n \in 0..(Len(body) + 1 - from) :
                /\ \A i \in from..(from + n - 1) : body[i] \in Digit
                /\ from + n > Len(body) \/ body[from + n] \notin Digit
        \* without the zeros at the start
        Significant(d) ==
            SubSeq(d, 1 + (CHOOSE z \in 0..Len(d) :
                              /\ \A i \in 1..z : d[i] = 0
                              /\ z = Len(d) \/ d[z + 1] # 0), Len(d))
        \* xd the digits of the exponent: one beyond the range of a double
        \* counts as 99999
        Scaled(neg, mant, n2, xneg, xd) ==
            [c |-> "finite", neg |-> neg, ds |-> Significant(mant),
             e10 |-> (IF xneg THEN -1 ELSE 1)
                         * (IF Len(xd) > 5 THEN 99999 ELSE NatOfDigits(xd)) - n2]
        \* xs the characters after the e
        Exponent(neg, mant, n2, xneg, xs) ==
            IF xs = <<>> \/ \E i \in 1..Len(xs) : xs[i] \notin Digit THEN Error
            ELSE Scaled(neg, mant, n2, xneg,
                        Significant([i \in 1..Len(xs) |-> Val(xs[i])]))
        \* p the length of the mantissa in body
        Mantissa(neg, body, mant, n2, p) ==
            IF mant = <<>> THEN Error
            ELSE IF p = Len(body) THEN Scaled(neg, mant, n2, FALSE, <<>>)
            ELSE IF body[p + 1] \notin {"e", "E"} THEN Error
            ELSE Exponent(neg, mant, n2,
                          p + 1 < Len(body) /\ body[p + 2] = "-",
                          SubSeq(body, IF p + 1 < Len(body)
                                          /\ body[p + 2] \in {"+", "-"}
                                       THEN p + 3 ELSE p + 2, Len(body)))
        \* n1 digits, then f characters of a point and its digits
        Fraction(neg, body, n1, f) ==
            Mantissa(neg, body,
                     [i \in 1..(IF f = 0 THEN n1 ELSE n1 + f - 1) |->
                         Val(body[IF i <= n1 THEN i ELSE i + 1])],
                     IF f = 0 THEN 0 ELSE f - 1, n1 + f)
        Whole(neg, body, n1) ==
            Fraction(neg, body, n1,
                     IF n1 < Len(body) /\ body[n1 + 1] = "."
                     THEN 1 + Run(body, n1 + 2) ELSE 0)
        Named(neg, body, name) ==
            IF name \in {<<"i", "n", "f">>,
                         <<"i", "n", "f", "i", "n", "i", "t", "y">>}
            THEN [c |-> "inf", neg |-> neg]
            ELSE IF name = <<"n", "a", "n">> THEN [c |-> "nan", neg |-> FALSE]
            ELSE Whole(neg, body, Run(body, 1))
        Unsigned(neg, body) ==
            Named(neg, body,
                  [i \in 1..Len(body) |->
                      CASE body[i] = "I" -> "i" [] body[i] = "N" -> "n"
                        [] body[i] = "F" -> "f" [] body[i] = "T" -> "t"
                        [] body[i] = "Y" -> "y" [] body[i] = "A" -> "a"
                        [] OTHER -> body[i]])
        Signed(ds) ==
            Unsigned(ds # <<>> /\ ds[1] = "-",
                     IF ds # <<>> /\ ds[1] \in {"+", "-"} THEN Tail(ds) ELSE ds)
        Chars(cs) ==
            IF \E i \in 1..Len(cs) :
                   cs[i] = "_" /\ ~(/\ i > 1 /\ i < Len(cs)
                                    /\ cs[i - 1] \in Digit /\ cs[i + 1] \in Digit)
            THEN Error
            ELSE Signed(SelectSeq(cs, LAMBDA c : c # "_"))
    IN  Chars([i \in 1..Len(w) |-> SubSeq(w, i, i)])

\* the whitespace float() ignores around a literal: that of str.strip()
\* without the separators U+001C to U+001F
FloatSpace == Whitespace \ {"<U+001C>", "<U+001D>", "<U+001E>", "<U+001F>"}

\* float(value): a float as it is, the double nearest to an int or to the
\* literal of a str, ValueError for a str that is no literal, OverflowError
\* for an int beyond the doubles, TypeError for any other value
ToFloat(value) ==
    LET Nearest(x) ==
            IF x.c = "inf" /\ value.t = "int" THEN Raised("OverflowError")
            ELSE FloatOfDouble(x)
        Read(lit) ==
            IF lit.c = "error" THEN Raised("ValueError")
            ELSE IF lit.c = "finite"
            THEN Nearest(DOfDecimal(lit.neg, lit.ds, lit.e10))
            ELSE Float(lit.c, lit.neg, <<>>, 0)
        Stripped(s) ==
            IF Len(s) = 1 /\ IsWord(s[1]) THEN ParseFloat(s[1])
            ELSE [c |-> "error"]
        IntLiteral(i) == [c |-> "finite", neg |-> i.neg, ds |-> i.m, e10 |-> 0]
    IN  CASE value.t = "float" -> value
          [] value.t \in {"int", "bool", "str"} ->
                Read(CASE value.t = "int" -> IntLiteral(value)
                       [] value.t = "bool" -> IntLiteral(PyInt(IF value.b THEN 1 ELSE 0))
                       [] value.t = "str" ->
                             Stripped(RStripSet(LStripSet(value.s, FloatSpace),
                                                FloatSpace)))
          [] OTHER -> Raised("TypeError")

\* lines 203-206, float_val the outcome of float(value):
\* float_val if float_val != int(float_val) else int(float_val), where
\* int() of an infinity raises OverflowError and int() of a nan ValueError;
\* except (ValueError, TypeError): return value.  int() of a whole double
\* mant * 2^exp is that number exactly, which from 2^53 on is not the
\* decimal repr() shows.
FormatFloat(value, float_val) ==
    LET Whole(x) ==
            IntOf(x.neg, BigDigits(IF x.exp >= 0 THEN BigShl(x.mant, x.exp)
                                   ELSE BigShr(x.mant, -x.exp)))
    IN  IF IsRaised(float_val)
        THEN (IF float_val.e = "OverflowError" THEN float_val ELSE value)
        ELSE IF float_val.c = "nan" THEN value
        ELSE IF float_val.c = "inf" THEN Raised("OverflowError")
        ELSE IF float_val.e <= 0 THEN Whole(DoubleOf(float_val))
        ELSE float_val

\* lines 200-207
format_number(value) ==
    IF IsRaised(value) THEN value
    ELSE IF IsNone(value) \/ value = EmptyStr THEN EmptyStr
    ELSE FormatFloat(value, ToFloat(value))

\* value * 9/5 + 32  (line 218): int * 9 is an int and / 5 its nearest
\* double, OverflowError when that is beyond the doubles; float * 9, / 5 and
\* + 32 each give the nearest double.  TypeError for a value that is not a
\* number.
ToFahrenheit(value) ==
    LET Plus32(x) ==
            IF x.c = "inf" /\ value.t # "float" THEN Raised("OverflowError")
            ELSE FloatOfDouble(DAdd(x, Double("finite", FALSE, <<32>>, 0)))
        Nine(i) == DIntDiv(i.neg, BigMulAdd(BigOfDigits(i.m), 9, 0), 5)
    IN  IF value.t \notin {"int", "bool", "float"} THEN Raised("TypeError")
        ELSE Plus32(IF value.t = "float" THEN DDiv(DMul(DoubleOf(value), 9), 5)
                    ELSE Nine(IF value.t = "int" THEN value
                              ELSE PyInt(IF value.b THEN 1 ELSE 0)))

\* lines 217-220
temperature_fahrenheit(current) ==
    IF ~IsNone(safe_get_value(current, <<"temperature", "value">>, EmptyStr))
    THEN format_number(ToFahrenheit(
             safe_get_value(current, <<"temperature", "value">>, PyInt(0))))
    ELSE EmptyStr

\* str(x)
ToStr(v) == PyStr(StrOf(v))

\* str(x).strip('"').replace(',', '|')  (line 232)
detailed_forecast(v) == PyStr(ReplaceChar(StripQuotes(StrOf(v)), ",", <<"|">>))

\* line 239
has_alerts(raw_data) ==
    LET features == Get(DictGet(raw_data, "alerts", EmptyDict), "features", PyNone)
    IN  IF IsRaised(features) THEN features
        ELSE IF Truthy(features) THEN PyStr(<<"Yes">>) ELSE PyStr(<<"No">>)

\* lines 213-240: the fields in the order the dict display evaluates them
ProcessedFields(raw_data, region_name, timestamp, current, forecast, grid) ==
    LET observed == {"temperature", "relativeHumidity", "windSpeed",
                     "windDirection", "barometricPressure", "visibility",
                     "dewpoint", "heatIndex", "windChill"}
        gridded == {"snowLevel", "iceAccumulation", "probabilityOfPrecipitation",
                    "maxTemperature", "minTemperature", "maxDaytimeUVIndex"}
        \* the argument of format_number for a reading of the observation,
        \* of the first forecast period or of the grid
        Reading(name) ==
            IF name \in observed
            THEN safe_get_value(current, <<name, "value">>, EmptyStr)
            ELSE IF name \in gridded THEN safe_get_grid_value(grid, name)
            ELSE safe_get_value(forecast, <<"temperature">>, EmptyStr)
        \* num: the formatted readings by their name
        Fields(num) ==
            << PyStr(timestamp),
               PyStr(region_name),
               num["temperature"],
               temperature_fahrenheit(current),
               num["relativeHumidity"],
               num["windSpeed"],
               num["windDirection"],
               num["barometricPressure"],
               num["visibility"],
               num["dewpoint"],
               num["heatIndex"],
               num["windChill"],
               ToStr(safe_get_value(current, <<"textDescription">>, EmptyStr)),
               num["forecast_temp"],
               ToStr(safe_get_value(forecast, <<"shortForecast">>, EmptyStr)),
               detailed_forecast(safe_get_value(forecast, <<"detailedForecast">>, EmptyStr)),
               num["snowLevel"],
               num["iceAccumulation"],
               num["probabilityOfPrecipitation"],
               num["maxTemperature"],
               num["minTemperature"],
               num["maxDaytimeUVIndex"],
               has_alerts(raw_data) >>
    IN  Fields([name \in observed \cup gridded \cup {"forecast_temp"} |->
                   format_number(Reading(name))])

\* the exception of the first statement or field that raises, "" if none
FirstRaised(vals) ==
    IF \E i \in 1..Len(vals) : IsRaised(vals[i])
    THEN vals[CHOOSE i \in 1..Len(vals) :
                 IsRaised(vals[i]) /\ \A j \in 1..(i - 1) : ~IsRaised(vals[j])].e
    ELSE ""

\* lines 172-246: [raised |-> exception or "", record |-> processed_data]
process_weather_data(raw_data, region_name, timestamp) ==
    LET current == Get(DictGet(raw_data, "current", EmptyDict), "properties", EmptyDict)
        forecast_periods ==
            Get(Get(DictGet(raw_data, "forecast", EmptyDict), "properties", EmptyDict),
                "periods", EmptyList)
        forecast == FirstOrEmpty(forecast_periods)
        grid == Get(DictGet(raw_data, "grid", EmptyDict), "properties", EmptyDict)
        head == FirstRaised(<<current, forecast_periods, forecast, grid>>)
        Record(fields) ==
            IF FirstRaised(fields) # ""
            THEN [raised |-> FirstRaised(fields), record |-> <<>>]
            ELSE [raised |-> "",
                  record |-> [k \in FieldSet |->
                      fields[CHOOSE i \in 1..Len(FIELDNAMES) : FIELDNAMES[i] = k]]]
    IN  IF head # "" THEN [raised |-> head, record |-> <<>>]
        ELSE Record(ProcessedFields(raw_data, region_name, timestamp,
                                    current, forecast, grid))

-----------------------------------------------------------------------------
(* Regions, clock and sample inputs *)

\* the names of REGIONS, in list order
REGIONS ==
    << "UMass_Dartmouth", "NYC_Central_Park", "Mount_Washington_NH", "Miami_FL",
       "New_Orleans_LA", "Oklahoma_City_OK", "Chicago_IL", "Denver_CO",
       "Salt_Lake_City_UT", "Seattle_WA", "San_Francisco_CA", "Phoenix_AZ",
       "Anchorage_AK", "Honolulu_HI" >>

\* the model runs the loop over the first MaxRegions regions
MaxRegions == 2

\* clock readings the environment may insert between two steps
MaxTicks == 1

\* regions each invocation of the race specification covers
MaxRaceRegions == 2

\* save calls of the save specification
MaxSaves == 3

\* The clock counts seconds from 2024-01-01 00:00:00.
SecondsPerDay == 86400
StartClock == SecondsPerDay - 2

\* strftime('%Y-%m-%d'): the date of the proleptic Gregorian calendar, found
\* from the day number counted from 0000-03-01 (2024-01-01 is day 739191),
\* by 400-year eras of 146097 days and years that begin in March
DateStr(c) ==
    LET Written(y, m, d) ==
            Pad2(y \div 100) \o Pad2(y % 100) \o "-" \o Pad2(m) \o "-" \o Pad2(d)
        Month(y, mp, doy) ==
            Written(IF mp < 10 THEN y ELSE y + 1,
                    IF mp < 10 THEN mp + 3 ELSE mp - 9,
                    doy - (153 * mp + 2) \div 5 + 1)
        DayOfYear(y, doy) == Month(y, (5 * doy + 2) \div 153, doy)
        YearOfEra(era, doe, yoe) ==
            DayOfYear(yoe + era * 400,
                      doe - (365 * yoe + yoe \div 4 - yoe \div 100))
        DayOfEra(era, doe) ==
            YearOfEra(era, doe,
                      (doe - doe \div 1460 + doe \div 36524 - doe \div 146096)
                          \div 365)
        Era(z) == DayOfEra(z \div 146097, z % 146097)
    IN  Era(c \div SecondsPerDay + 739191)

\* strftime('%H:%M:%S')
TimeStr(c) ==
    LET sec == c % SecondsPerDay
    IN  Pad2(sec \div 3600) \o ":" \o Pad2((sec % 3600) \div 60) \o ":" \o Pad2(sec % 60)

\* datetime.now().strftime('%Y-%m-%d %H:%M:%S')  (line 180)
Timestamp(c) == <<DateStr(c), " ", TimeStr(c)>>

\* f'weather_data_{current_timestamp.strftime("%Y-%m-%d")}.csv'  (line 252)
FileName(c) == "weather_data_" \o DateStr(c) \o ".csv"

\* a record with the given key fields and short_forecast, other fields ''
Rec(timestamp, region, short_forecast) ==
    [k \in FieldSet |->
        CASE k = "timestamp" -> PyStr(timestamp)
          [] k = "region" -> PyStr(region)
          [] k = "short_forecast" -> PyStr(short_forecast)
          [] OTHER -> EmptyStr]

\* the dict item key: value, key a word
Item(key, value) == <<<<key>>, value>>

\* the observation bundle get_weather_data and get_weather_alerts return for
\* an observation whose temperature entry is temp (absent when temp = <<>>)
RawBundle(temp, text, features) ==
    LET props == (IF temp = <<>> THEN <<>> ELSE <<Item("temperature", temp[1])>>)
                     \o <<Item("textDescription", PyStr(text))>>
    IN  PyDict(<< Item("current", PyDict(<<Item("properties", PyDict(props))>>)),
                  Item("hourly", EmptyDict),
                  Item("forecast", EmptyDict),
                  Item("grid", EmptyDict),
                  Item("alerts", PyDict(<<Item("features", PyList(features))>>)) >>)

Value(v) == PyDict(<<Item("value", v)>>)

\* temperature entries of the observation: readings, null, missing keys,
\* and shapes that are not a mapping
TemperatureShapes ==
    { <<Value(PyInt(0))>>, <<Value(PyInt(100))>>, <<Value(PyFloat(38, 0))>>,
      <<Value(PyInt(-40))>>, <<Value(PyFloat(378, 1))>>, <<Value(PyNone)>>,
      <<EmptyDict>>, <<>>, <<PyNone>>, <<PyInt(5)>> }

NormalizeInputs ==
    {RawBundle(temp, <<"Sunny">>, features) :
        temp \in TemperatureShapes, features \in {<<>>, <<PyInt(1)>>}}

\* the word of n characters c
RECURSIVE Repeat(_, _)
Repeat(c, n) ==
    LET Twice(half) == half \o half \o (IF n % 2 = 1 THEN c ELSE "")
    IN  IF n = 0 THEN "" ELSE Twice(Repeat(c, n \div 2))

\* an observation whose description is one character longer than the field
\* size limit of the csv reader
LongText == <<Repeat("x", field_size_limit + 1)>>
LongSample == RawBundle(<<Value(PyInt(20))>>, LongText, <<>>)

\* what the API returns in the race specification
RaceSample == RawBundle(<<Value(PyFloat(38, 0))>>, <<"Sunny">>, <<>>)

\* what the API returns in the handler specification
RawSamples ==
    { RaceSample,
      LongSample,
      RawBundle(<<Value(PyNone)>>, <<"Sunny">>, <<PyInt(1)>>),
      RawBundle(<<>>, <<"Sunny">>, <<>>) }

\* inputs of safe_get_value
LookupData ==
    { PyNone, EmptyDict, PyInt(5), PyStr(<<"x">>), PyList(<<PyInt(1)>>),
      PyDict(<<Item("temperature", Value(PyInt(0)))>>),
      PyDict(<<Item("temperature", Value(PyNone))>>),
      PyDict(<<Item("temperature", EmptyDict)>>),
      PyDict(<<Item("temperature", PyNone)>>),
      PyDict(<<Item("temperature", PyInt(5))>>),
      PyDict(<<Item("textDescription", PyStr(<<"Sunny">>))>>) }

LookupKeys ==
    { <<>>, <<"temperature">>, <<"temperature", "value">>, <<"textDescription">> }

LookupDefaults == { EmptyStr, PyInt(0), PyNone }

-----------------------------------------------------------------------------
(* State                                                                    *)
(*   s3     the bucket: a function from object key to stored object         *)
(*   clock  what datetime.now() returns                                     *)
(*   ticks  how often the environment advanced the clock                    *)
(*   inv    the running invocations of lambda_handler, by invocation id;    *)
(*          under SpecSave the callers of save_consolidated_data            *)
(*   puts   history: the put_object calls that completed                    *)
(*   call   history: the last direct call of a function that returned or    *)
(*          raised, with its outcome                                        *)

VARIABLES s3, clock, ticks, inv, puts, call

vars == <<s3, clock, ticks, inv, puts, call>>

\* lambda_handler before its first statement; n is the number of regions
\* the run covers.  slept, called, effects and overlapped are history.
NewInvocation(n) ==
    [pc |-> "idle", n |-> n, execution_start |-> 0, region |-> 0,
     processed_regions |-> 0, failed_regions |-> 0,
     results |-> [successful_regions |-> <<>>, failed_regions |-> <<>>],
     raw_weather_data |-> PyNone, processed_data |-> <<>>,
     file_name |-> "", loaded |-> <<>>, statusCode |-> 0, wake |-> 0,
     slept |-> <<>>, called |-> {}, effects |-> <<>>,
     overlapped |-> FALSE]

NoCall == [fn |-> "none", n |-> 0]

\* a dataset the program wrote earlier the same day
EarlierRow == Rec(Timestamp(StartClock - 3600), <<REGIONS[1]>>, <<"Sunny">>)
EarlierDataset == DatasetOf(<<EarlierRow>>).body

\* the bucket when a run starts: no object for the day, an earlier dataset,
\* text without a comma, or a table without the key columns
HandlerStores ==
    { <<>>,
      FileName(StartClock) :> Object(EarlierDataset),
      FileName(StartClock) :> Object(<<"garbage">>),
      FileName(StartClock) :> Object(<<"a", ",", "b", "\n", "1", ",", "2", "\n">>) }

Init ==
    /\ s3 \in HandlerStores
    /\ clock = StartClock
    /\ ticks = 0
    /\ inv = [p \in {1} |-> NewInvocation(MaxRegions)]
    /\ puts = <<>>
    /\ call = NoCall

\* the race starts on an empty day or on an earlier dataset
InitRace ==
    /\ s3 \in {<<>>, FileName(StartClock) :> Object(EarlierDataset)}
    /\ clock = StartClock
    /\ ticks = 0
    /\ inv = [p \in {1, 2} |-> NewInvocation(MaxRaceRegions)]
    /\ puts = <<>>
    /\ call = NoCall

-----------------------------------------------------------------------------
(* lambda_handler *)

RegionName(p) == REGIONS[inv[p].region]

\* lines 333-346
Invoke(p) ==
    /\ inv[p].pc = "idle"
    /\ inv' = [inv EXCEPT ![p].pc = "for", ![p].execution_start = clock]
    /\ UNCHANGED <<s3, clock, ticks, puts, call>>

\* lines 349-355: the next region of the loop; after a processed region the
\* pacing delay comes first, and wake is the clock at which it is over
NextRegion(p) ==
    /\ inv[p].pc = "for"
    /\ inv[p].region < inv[p].n
    /\ inv' = [inv EXCEPT
                  ![p].pc = IF inv[p].processed_regions > 0 THEN "sleep"
                            ELSE "station",
                  ![p].wake = IF inv[p].processed_regions > 0 THEN clock + 1
                              ELSE 0,
                  ![p].region = @ + 1,
                  ![p].slept = Append(@, inv[p].processed_regions > 0)]
    /\ UNCHANGED <<s3, clock, ticks, puts, call>>

\* line 355, time.sleep(1) returns: a second or more after it was called.
\* Invocations that sleep at the same time share the second.
Sleep(p) ==
    /\ inv[p].pc = "sleep"
    /\ clock' = IF clock < inv[p].wake THEN inv[p].wake ELSE clock
    /\ inv' = [inv EXCEPT ![p].pc = "station", ![p].wake = 0]
    /\ UNCHANGED <<s3, ticks, puts, call>>

\* a faulty except clause that swallows the failure without recording it, to
\* show that C4 depends on the bookkeeping
Failed_Unrecorded(p, error) ==
    [inv[p] EXCEPT !.pc = "for",
                   !.effects = Append(@, [region |-> RegionName(p), ok |-> FALSE])]

\* lines 374-381: the except clause of the loop body
Failed(p, error) ==
    [inv[p] EXCEPT !.pc = "for",
                   !.failed_regions = @ + 1,
                   !.results.failed_regions =
                       Append(@, [region |-> RegionName(p), error |-> error]),
                   !.effects = Append(@, [region |-> RegionName(p), ok |-> FALSE])]

\* line 358, get_station_data returns
StationOk(p) ==
    /\ inv[p].pc = "station"
    /\ inv' = [inv EXCEPT ![p].pc = "weather",
                          ![p].called = @ \cup {inv[p].region}]
    /\ UNCHANGED <<s3, clock, ticks, puts, call>>

\* line 358, get_station_data raises
StationFail(p) ==
    /\ inv[p].pc = "station"
    /\ inv' = [inv EXCEPT ![p] =
                  [Failed(p, "station") EXCEPT !.called = @ \cup {inv[p].region}]]
    /\ UNCHANGED <<s3, clock, ticks, puts, call>>

\* lines 359-361, get_weather_data returns; get_weather_alerts never raises
WeatherOk(p, raw) ==
    /\ inv[p].pc = "weather"
    /\ inv' = [inv EXCEPT ![p].pc = "process", ![p].raw_weather_data = raw]
    /\ UNCHANGED <<s3, clock, ticks, puts, call>>

\* line 359, get_weather_data raises
WeatherFail(p) ==
    /\ inv[p].pc = "weather"
    /\ inv' = [inv EXCEPT ![p] = Failed(p, "weather")]
    /\ UNCHANGED <<s3, clock, ticks, puts, call>>

\* lines 364-367, r the outcome of process_weather_data
Processed(p, r) ==
    /\ inv' = [inv EXCEPT ![p] =
                  IF r.raised # "" THEN Failed(p, r.raised)
                  ELSE [inv[p] EXCEPT
                          !.pc = "save",
                          !.processed_data =
                              r.record @@ ("execution_timestamp" :>
                                  PyStr(Timestamp(inv[p].execution_start)))]]
    /\ UNCHANGED <<s3, clock, ticks, puts, call>>

Process(p) ==
    /\ inv[p].pc = "process"
    /\ Processed(p, process_weather_data(inv[p].raw_weather_data,
                                         <<RegionName(p)>>, Timestamp(clock)))

\* s3.get_object(Bucket, Key) when the service answers
GetObject(key) == IF key \in DOMAIN s3 THEN s3[key] ELSE NoSuchKey

\* line 369, save_consolidated_data lines 251-305: the read half
SaveGet(p) ==
    /\ inv[p].pc = "save"
    /\ LET racing == {q \in DOMAIN inv : q # p /\ inv[q].pc = "put"}
           Loaded(loaded) ==
               [q \in DOMAIN inv |->
                   IF q = p
                   THEN (IF loaded.raised # "" THEN Failed(p, loaded.raised)
                         ELSE [inv[p] EXCEPT !.pc = "put",
                                             !.file_name = FileName(clock),
                                             !.loaded = loaded,
                                             !.overlapped = racing # {}])
                   ELSE IF q \in racing THEN [inv[q] EXCEPT !.overlapped = TRUE]
                   ELSE inv[q]]
       IN  inv' = Loaded(LoadExisting(GetObject(FileName(clock))))
    /\ UNCHANGED <<s3, clock, ticks, puts, call>>

\* line 281, get_object raises an error other than NoSuchKey
SaveGetFail(p) ==
    /\ inv[p].pc = "save"
    /\ inv' = [inv EXCEPT ![p] = Failed(p, LoadExisting(ClientError).raised)]
    /\ UNCHANGED <<s3, clock, ticks, puts, call>>

\* lines 307-324 and 371-372: the write half; the put replaces the object
SavePut(p) ==
    /\ inv[p].pc = "put"
    /\ s3' = (inv[p].file_name :>
                 Object(NewBody(inv[p].loaded, inv[p].processed_data))) @@ s3
    /\ puts' = Append(puts, [inv |-> p, region |-> inv[p].region,
                             file_name |-> inv[p].file_name,
                             timestamp |-> inv[p].processed_data["timestamp"],
                             name |-> inv[p].processed_data["region"],
                             overlapped |-> inv[p].overlapped])
    /\ inv' = [inv EXCEPT ![p].pc = "for",
                          ![p].processed_regions = @ + 1,
                          ![p].results.successful_regions = Append(@, RegionName(p)),
                          ![p].effects = Append(@, [region |-> RegionName(p), ok |-> TRUE])]
    /\ UNCHANGED <<clock, ticks, call>>

\* line 318, put_object raises: the object is not replaced
SavePutFail(p) ==
    /\ inv[p].pc = "put"
    /\ inv' = [inv EXCEPT ![p] = Failed(p, "ClientError")]
    /\ UNCHANGED <<s3, clock, ticks, puts, call>>

\* lines 383-395
Return(p) ==
    /\ inv[p].pc = "for"
    /\ inv[p].region = inv[p].n
    /\ inv' = [inv EXCEPT ![p].pc = "done", ![p].statusCode = 200]
    /\ UNCHANGED <<s3, clock, ticks, puts, call>>

\* time passes
Tick ==
    /\ ticks < MaxTicks
    /\ clock' = clock + 1
    /\ ticks' = ticks + 1
    /\ UNCHANGED <<s3, inv, puts, call>>

Next ==
    \/ Tick
    \/ \E p \in DOMAIN inv :
          \/ Invoke(p)
          \/ NextRegion(p)
          \/ Sleep(p)
          \/ StationOk(p)
          \/ StationFail(p)
          \/ \E raw \in RawSamples : WeatherOk(p, raw)
          \/ WeatherFail(p)
          \/ Process(p)
          \/ SaveGet(p)
          \/ SaveGetFail(p)
          \/ SavePut(p)
          \/ SavePutFail(p)
          \/ Return(p)

Spec == Init /\ [][Next]_vars

\* two invocations whose API calls and store calls all succeed; time passes
\* in the pacing delays
NextRace ==
    \E p \in DOMAIN inv :
        \/ Invoke(p)
        \/ NextRegion(p)
        \/ Sleep(p)
        \/ StationOk(p)
        \/ \E raw \in {RaceSample, LongSample} : WeatherOk(p, raw)
        \/ Process(p)
        \/ SaveGet(p)
        \/ SavePut(p)
        \/ Return(p)

SpecRace == InitRace /\ [][NextRace]_vars

-----------------------------------------------------------------------------
(* Direct calls of save_consolidated_data on one date partition, the store  *)
(* answering every call.  get_object and put_object are separate steps: no  *)
(* lock keeps a second call from running between them.                      *)

Cleaned(data) == [k \in FieldSet |-> clean_value(DataGet(data, k))]

\* the records handed to save_consolidated_data
SaveRecords ==
    { Rec(Timestamp(StartClock), <<REGIONS[1]>>, <<"Sunny">>),
      Rec(Timestamp(StartClock + 1), <<REGIONS[1]>>, <<"Partly", " ", "Cloudy">>),
      Rec(Timestamp(StartClock), <<REGIONS[2]>>, <<"\"", " ", "Fog", "\"">>),
      Rec(<<" ">> \o Timestamp(StartClock), <<REGIONS[1]>>,
          <<"Rain", ",", " ", "Wind">>) }

\* the object of the partition before the first call: none, empty, blank,
\* text without a comma, a table without the key columns (with and without
\* rows), bytes that do not decode, and what earlier calls left: two rows,
\* two rows stored with one key pair, a field over the field size limit
SaveStores ==
    { <<>> } \cup
    { FileName(StartClock) :> obj : obj \in
        { Object(<<>>),
          Object(<<" ", "\n">>),
          Object(<<"garbage">>),
          Object(<<"a", ",", "b", "\n", "1", ",", "2", "\n">>),
          Object(<<"a", ",", "b", "\n">>),
          UndecodableObject,
          DatasetOf(<<EarlierRow,
                      Rec(Timestamp(StartClock), <<REGIONS[2]>>, <<"Sunny">>)>>),
          DatasetOf(<<EarlierRow,
                      Rec(<<" ">> \o Timestamp(StartClock - 3600), <<REGIONS[1]>>,
                          <<"Windy">>)>>),
          DatasetOf(<<EarlierRow,
                      Rec(Timestamp(StartClock), <<REGIONS[2]>>, LongText)>>) } }

\* two callers, so that a call can run while another is between its
\* get_object and its put_object; a caller is idle between two calls
InitSave ==
    /\ s3 \in SaveStores
    /\ clock = StartClock
    /\ ticks = 0
    /\ inv = [p \in {1, 2} |-> [pc |-> "idle"]]
    /\ puts = <<>>
    /\ call = NoCall

\* save_consolidated_data(data, BUCKET_NAME) is called and runs lines
\* 251-316: get_object returns got (line 281) and r is the outcome of the
\* call up to put_object.  A call that raises is over, the outcome recorded;
\* another goes on to put_object.  MaxSaves bounds the calls made.
SaveCall(p, data) ==
    LET Read(got, r) ==
            /\ inv' = [inv EXCEPT ![p] =
                          IF r.raised # "" THEN [pc |-> "idle"]
                          ELSE [pc |-> "put", file_name |-> FileName(clock),
                                data |-> data, got |-> got, body |-> r.body]]
            /\ call' = IF r.raised # ""
                       THEN [fn |-> "save_consolidated_data", n |-> call.n + 1,
                             data |-> data, got |-> got, raised |-> r.raised]
                       ELSE call
    IN  /\ inv[p].pc = "idle"
        /\ call.n + Cardinality({q \in DOMAIN inv : inv[q].pc = "put"}) < MaxSaves
        /\ Read(GetObject(FileName(clock)),
                save_consolidated_data(data, GetObject(FileName(clock))))
        /\ UNCHANGED <<s3, clock, ticks, puts>>

\* put_object replaces the object (line 318) and the call returns: the
\* outcome is recorded
SaveUpload(p) ==
    /\ inv[p].pc = "put"
    /\ s3' = (inv[p].file_name :> Object(inv[p].body)) @@ s3
    /\ call' = [fn |-> "save_consolidated_data", n |-> call.n + 1,
                data |-> inv[p].data, got |-> inv[p].got, raised |-> ""]
    /\ inv' = [inv EXCEPT ![p] = [pc |-> "idle"]]
    /\ UNCHANGED <<clock, ticks, puts>>

NextSave ==
    \E p \in DOMAIN inv :
        \/ \E data \in SaveRecords : SaveCall(p, data)
        \/ SaveUpload(p)

SpecSave == InitSave /\ [][NextSave]_vars

-----------------------------------------------------------------------------
(* Direct calls of process_weather_data and of its helper safe_get_value *)

InitNormalize ==
    /\ s3 = <<>>
    /\ clock = StartClock
    /\ ticks = 0
    /\ inv = <<>>
    /\ puts = <<>>
    /\ call = NoCall

Normalize(raw_data, region_name) ==
    /\ call' = [fn |-> "process_weather_data", n |-> 0, raw_data |-> raw_data,
                result |-> process_weather_data(raw_data, <<region_name>>,
                                                Timestamp(clock))]
    /\ UNCHANGED <<s3, clock, ticks, inv, puts>>

Lookup(data, keys, default) ==
    /\ call' = [fn |-> "safe_get_value", n |-> 0, data |-> data, keys |-> keys,
                default |-> default,
                result |-> safe_get_value(data, keys, default)]
    /\ UNCHANGED <<s3, clock, ticks, inv, puts>>

NextNormalize ==
    \/ \E raw_data \in NormalizeInputs : Normalize(raw_data, REGIONS[1])
    \/ \E data \in LookupData, keys \in LookupKeys, default \in LookupDefaults :
          Lookup(data, keys, default)

SpecNormalize == InitNormalize /\ [][NextNormalize]_vars

-----------------------------------------------------------------------------
(* Reading a stored dataset back, for the properties below: the rows are   *)
(* those of the text, whatever the length of their fields                   *)

NoLimit == 2^30

\* the data rows of a body, each a sequence of Text, header and blank rows
\* left out
StoredRows(body) ==
    LET rows == ReadRows(body, NoLimit).rows
    IN  IF rows = <<>> THEN <<>> ELSE DataRows(rows)

StoredHeader(body) ==
    LET rows == ReadRows(body, NoLimit).rows
    IN  IF rows = <<>> THEN <<>> ELSE Head(rows)

HeaderIsFieldnames(body) ==
    StoredHeader(body) = [i \in 1..Len(FIELDNAMES) |-> <<FIELDNAMES[i]>>]

\* the (timestamp, region) pair of a row of a dataset whose header is FIELDNAMES
KeyPair(row) == <<row[1], row[2]>>

IsPrefix(a, b) == Len(a) <= Len(b) /\ SubSeq(b, 1, Len(a)) = a

\* the row the writer stores for a record
RowOf(data) == [i \in 1..Len(FIELDNAMES) |-> Cleaned(data)[FIELDNAMES[i]]]

SavedOk == call.fn = "save_consolidated_data" /\ call.raised = ""

Uploaded == s3[FileName(clock)].body

\* a dataset as the specification defines it: decodable, parsed without
\* error, the fixed header, every row complete, one row per key pair
ValidDataset(got) ==
    /\ got.kind = "Object"
    /\ got.utf8
    /\ ~ReadRows(got.body, NoLimit).err
    /\ HeaderIsFieldnames(got.body)
    /\ LET rows == StoredRows(got.body)
       IN  /\ \A i \in 1..Len(rows) : Len(rows[i]) = Len(FIELDNAMES)
           /\ \A i, j \in 1..Len(rows) : i # j => KeyPair(rows[i]) # KeyPair(rows[j])

\* the prior states C3 lists: no object, empty or blank, no comma, or a
\* header row without the timestamp or the region column
NotADataset(got) ==
    \/ got.kind = "NoSuchKey"
    \/ /\ got.kind = "Object"
       /\ got.utf8
       /\ \/ Strip(got.body) = <<>>
          \/ ~Contains(got.body, ",")
          \/ ~HasColumn(StoredHeader(got.body), "timestamp")
          \/ ~HasColumn(StoredHeader(got.body), "region")

-----------------------------------------------------------------------------
(* Properties *)

\* C1: after a save, the uploaded dataset never holds two data rows with the
\* same (timestamp, region) pair, whatever the partition held before.
C1_UniqueKeys ==
    SavedOk =>
        LET rows == StoredRows(Uploaded)
        IN  \A i, j \in 1..Len(rows) : i # j => KeyPair(rows[i]) # KeyPair(rows[j])

\* C2: a save on a valid dataset keeps its rows as a prefix of the uploaded
\* rows, unaltered and in order, and a record with a new key pair becomes the
\* last row.
C2_AppendOnly ==
    (SavedOk /\ ValidDataset(call.got)) =>
        LET before == StoredRows(call.got.body)
            after == StoredRows(Uploaded)
            new == RowOf(call.data)
        IN  /\ IsPrefix(before, after)
            /\ (\A i \in 1..Len(before) : KeyPair(before[i]) # KeyPair(new))
                   => after = Append(before, new)

\* C3: when the partition holds no valid dataset (no object, empty or blank
\* text, text without a comma, a header without the key columns) the save
\* does not raise and uploads the header followed by the new record.
C3_RecoversFromInvalid ==
    (call.fn = "save_consolidated_data" /\ NotADataset(call.got)) =>
        /\ call.raised = ""
        /\ Uploaded = writeheader \o dict_writerow(Cleaned(call.data))


\* the temperature entry of the observation in a raw bundle, <<>> when the
\* temperature key is missing
TemperatureEntry(raw_data) ==
    LET props == DictGet(DictGet(raw_data, "current", EmptyDict),
                         "properties", EmptyDict)
    IN  IF DictHas(props, "temperature")
        THEN <<DictGet(props, "temperature", PyNone)>> ELSE <<>>

\* the Celsius value is empty: the temperature key is missing, its value key
\* is missing, or the value is null
EmptyCelsius(raw_data) ==
    TemperatureEntry(raw_data) \in {<<>>, <<EmptyDict>>, <<Value(PyNone)>>}

\* C5: temperature_fahrenheit is 32 for Celsius 0 and 212 for Celsius 100,
\* and when the Celsius value is empty the normalization does not raise and
\* temperature_fahrenheit is the empty marker.
C5_FahrenheitOnlyFromCelsius ==
    call.fn = "process_weather_data" =>
        LET entry == TemperatureEntry(call.raw_data)
            r == call.result
        IN  /\ entry = <<Value(PyInt(0))>> =>
                   r.raised = "" /\ r.record["temperature_fahrenheit"] = PyInt(32)
            /\ entry = <<Value(PyInt(100))>> =>
                   r.raised = "" /\ r.record["temperature_fahrenheit"] = PyInt(212)
            /\ EmptyCelsius(call.raw_data) =>
                   r.raised = "" /\ r.record["temperature_fahrenheit"] = EmptyStr

\* the key path leads to a value: every key is present in a mapping and the
\* value at the end is not null
RECURSIVE Followable(_, _)
Followable(data, keys) ==
    IF keys = <<>> THEN ~IsNone(data)
    ELSE /\ IsMapping(data)
         /\ DictHas(data, Head(keys))
         /\ Followable(DictGet(data, Head(keys), PyNone), Tail(keys))

\* C6: safe_get_value never raises, and returns the supplied default
\* whenever the key path cannot be followed to a value.
C6_DefaultWhenPathBroken ==
    call.fn = "safe_get_value" =>
        /\ ~IsRaised(call.result)
        /\ ~Followable(call.data, call.keys) => call.result = call.default

SeqToSet(q) == {q[i] : i \in 1..Len(q)}

FailedNames(p) ==
    [i \in 1..Len(inv[p].results.failed_regions) |->
        inv[p].results.failed_regions[i].region]

Count(q, x) == Cardinality({i \in 1..Len(q) : q[i] = x})

\* the covered regions, in list order
Covered(p) == SubSeq(REGIONS, 1, inv[p].n)

\* C4: whatever fails per region, the run visits every region once in list
\* order and returns 200, with every region in exactly one of the two result
\* lists and the counters equal to the lengths of the lists.
C4_RunSummary ==
    \A p \in DOMAIN inv :
        inv[p].pc = "done" =>
            /\ inv[p].statusCode = 200
            /\ [i \in 1..Len(inv[p].effects) |-> inv[p].effects[i].region] = Covered(p)
            /\ \A r \in SeqToSet(Covered(p)) :
                   Count(inv[p].results.successful_regions, r)
                       + Count(FailedNames(p), r) = 1
            /\ \A i \in 1..Len(inv[p].results.failed_regions) :
                   inv[p].results.failed_regions[i].error # ""
            /\ inv[p].processed_regions = Len(inv[p].results.successful_regions)
            /\ inv[p].failed_regions = Len(inv[p].results.failed_regions)
            /\ inv[p].processed_regions + inv[p].failed_regions = Len(Covered(p))

\* a finished run in which the first region failed and a later one succeeded
C4_MixedRun ==
    \E p \in DOMAIN inv :
        /\ inv[p].pc = "done"
        /\ inv[p].processed_regions > 0
        /\ inv[p].failed_regions > 0
        /\ inv[p].effects[1].ok = FALSE

\* the put_object calls invocation p completed for its region number i
PutsOf(p, i) == {k \in 1..Len(puts) : puts[k].inv = p /\ puts[k].region = i}

\* the key pairs of the rows of every stored object
StoredKeys ==
    [key \in DOMAIN s3 |->
        LET rows == StoredRows(s3[key].body)
        IN  {KeyPair(rows[i]) : i \in 1..Len(rows)}]

\* the stored object of a completed put holds a row with the put's key
RowStored(put, keys) ==
    /\ put.file_name \in DOMAIN keys
    /\ <<put.timestamp.s, put.name.s>> \in keys[put.file_name]

\* what the run shows of its regions: a failed one completed no put_object,
\* a successful one completed one and its key is in the stored dataset
RegionOutcomes ==
    LET keys == StoredKeys IN
    \A p \in DOMAIN inv :
        \A i \in 1..Len(inv[p].effects) :
            LET e == inv[p].effects[i]
            IN  /\ e.region \in SeqToSet(FailedNames(p)) => PutsOf(p, i) = {}
                /\ e.region \in SeqToSet(inv[p].results.successful_regions) =>
                       /\ PutsOf(p, i) # {}
                       /\ \A k \in PutsOf(p, i) : RowStored(puts[k], keys)

\* the bucket changes only in the step that completes a put_object and counts
\* the region as successful
OnlyCommittedPutsWrite ==
    s3' # s3 =>
        \E p \in DOMAIN inv :
            /\ Len(puts') = Len(puts) + 1
            /\ puts'[Len(puts')].inv = p
            /\ puts'[Len(puts')].region = inv[p].region
            /\ inv'[p].results.successful_regions
                   = Append(inv[p].results.successful_regions, RegionName(p))
            /\ inv'[p].results.failed_regions = inv[p].results.failed_regions

\* C7: a region that failed completed no put_object and no step of it changed
\* the bucket, so the stored dataset is what it was when the region started;
\* a region that succeeded completed a put_object and its key is in the
\* stored dataset.
C7_FailedRegionsCommitNothing ==
    []RegionOutcomes /\ [][OnlyCommittedPutsWrite]_vars

\* C8: every region after the first has the pacing delay before its first
\* API call, whatever happened to the regions before it.
C8_DelayBeforeLaterRegions ==
    \A p \in DOMAIN inv :
        \A i \in inv[p].called : i > 1 => inv[p].slept[i]

\* C9: interleaved saves can lose an update, and a record saved by a save
\* that no other save overlapped stays in the stored dataset.
C9_NoLossWithoutOverlap ==
    LET keys == StoredKeys
    IN  \A k \in 1..Len(puts) : ~puts[k].overlapped => RowStored(puts[k], keys)

\* the lost update of C9: both invocations returned 200 and the dataset
\* lacks a record one of them saved in an overlapped save
C9_LostUpdate ==
    /\ \A p \in DOMAIN inv : inv[p].pc = "done" /\ inv[p].statusCode = 200
    /\ Cardinality(DOMAIN inv) = 2
    /\ \E k \in 1..Len(puts) : puts[k].overlapped /\ ~RowStored(puts[k], StoredKeys)

\* C10: every row of the object weather_data_<D>.csv has a timestamp of
\* date D.
C10_RowsInOwnPartition ==
    \A key \in DOMAIN s3 :
        (s3[key].utf8 /\ HeaderIsFieldnames(s3[key].body)) =>
            LET rows == StoredRows(s3[key].body)
            IN  \A i \in 1..Len(rows) :
                    key = "weather_data_" \o rows[i][1][1] \o ".csv"

====
